---- MODULE Spec2Model ----
(***************************************************************************)
(* MS-GEO-PY: the command and query handlers of src/src/routers/geo.py     *)
(* over the tables declared in src/src/models, with the request and        *)
(* response schemas of src/src/schemas/geo.py.                             *)
(*                                                                         *)
(* The store is the relational database behind the SQLAlchemy session.     *)
(* The POST handlers read (the existence pre-checks) and later commit;     *)
(* several service processes share one database, so another request's     *)
(* commit can fall between the two: each POST is a check step followed by  *)
(* an insert step.  The constraints the tables declare are decided by the  *)
(* store, atomically, at the commit.  A PUT handler is one step: its read  *)
(* decides only the 404, rows are never deleted through the service, and   *)
(* its UPDATE carries only the columns it assigned.  A query handler is    *)
(* one step: it reads the store in one statement or one transaction.       *)
(*                                                                         *)
(* No handler deletes a row.  A city leaves the store only when it is      *)
(* deleted in the deployed database itself; that step is part of           *)
(* SpecDelete alone, where the tables' cascade declarations decide what    *)
(* happens to the city's zones.                                            *)
(*                                                                         *)
(* An optional value (Python's Optional[T], a nullable column) is a        *)
(* sequence of length at most one: <<>> is None / NULL, <<v>> is v.        *)
(***************************************************************************)
EXTENDS Integers, Sequences, FiniteSets, Bags, TLC

VARIABLES engine,    \* the database engine behind DATABASE_URL
          cities,    \* rows of table "cities"
          zones,     \* rows of table "zones"
          seq,       \* the id sequences of the two tables
          clock,     \* the store's now()
          pending,   \* POST requests past their pre-checks, not yet committed
          resp,      \* the step the service took last, and its response
          nreq,      \* requests received so far
          removed    \* history: the ids of the rows deleted from the store

vars == <<engine, cities, zones, seq, clock, pending, resp, nreq, removed>>

----------------------------------------------------------------------------
\* Bounds of the model.

\* requests the service receives in one run
MaxRequests == 2

None == <<>>
Some(v) == <<v>>

----------------------------------------------------------------------------
\* Strings whose characters matter (colours) are sequences of characters.

HexUpper == {"0","1","2","3","4","5","6","7","8","9","A","B","C","D","E","F"}
HexLower == {"a","b","c","d","e","f"}

\* str.upper(), one character
UpperChar(c) ==
  CASE c = "a" -> "A" [] c = "b" -> "B" [] c = "c" -> "C" [] c = "d" -> "D"
    [] c = "e" -> "E" [] c = "f" -> "F" [] c = "l" -> "L" [] c = "u" -> "U"
    [] OTHER -> c

\* str.upper()
Upper(s) == [i \in 1..Len(s) |-> UpperChar(s[i])]

\* the Field pattern ^#[0-9A-Fa-f]{6}$
ColorPattern(s) ==
  /\ Len(s) = 7
  /\ s[1] = "#"
  /\ \A i \in 2..7 : s[i] \in HexUpper \cup HexLower

\* ZoneBase.validate_color: the two conditions under which it does not raise
validate_color_ok(v) == Len(v) > 0 /\ v[1] = "#" /\ Len(v) = 7

\* ZoneBase.validate_color: the value it returns
validate_color(v) == Upper(v)

\* the default of ZoneBase.color, "#3498db"
DefaultColor == <<"#","3","4","9","8","d","b">>

\* the default of CityBase.country
DefaultCountry == "Colombia"

----------------------------------------------------------------------------
\* Request inputs.

CityNames == {"Bogota", "Cali"}
Countries == {"Peru"}
ZoneNames == {"Norte", "Sur"}
Descriptions == {"Zona sur"}
\* "#e74c3c", "blue"
Colors == { <<"#","e","7","4","c","3","c">>, <<"b","l","u","e">> }
\* ids a request may name: ids of rows, an id no row has (9), and 0
CityIds == {0, 1, 2, 9}
ZoneIds == {1, 2, 9}

\* JSON bodies of POST /cities: country may be left out
CityCreateBodies ==
  [name : CityNames, country : {None} \cup {Some(c) : c \in Countries}]

\* JSON bodies of POST /zones: color and description may be left out
ZoneCreateBodies ==
  [name : ZoneNames, city_id : CityIds,
   color : {None} \cup {Some(c) : c \in Colors},
   description : {None} \cup {Some(d) : d \in Descriptions}]

\* the fields of a PUT body that are present (pydantic's model_fields_set):
\* none, any one field, or one of the given pairs
FieldSets(fields, pairs) == {{}} \cup {{f} : f \in fields} \cup pairs

\* the values a field of a PUT body takes: null or one of vals when present,
\* the schema's default None when absent
FieldValues(S, f, vals) ==
  IF f \in S THEN {None} \cup {Some(v) : v \in vals} ELSE {None}

\* CityUpdate objects, as parsed from the JSON bodies of PUT /cities/{id}
CityUpdateBodies ==
  UNION { [set : {S},
           name : FieldValues(S, "name", CityNames),
           country : FieldValues(S, "country", Countries),
           is_active : FieldValues(S, "is_active", BOOLEAN)]
          : S \in FieldSets({"name", "country", "is_active"},
                            {{"name", "is_active"}}) }

\* ZoneUpdate objects, as parsed from the JSON bodies of PUT /zones/{id}
ZoneUpdateBodies ==
  UNION { [set : {S},
           name : FieldValues(S, "name", ZoneNames),
           city_id : FieldValues(S, "city_id", CityIds),
           color : FieldValues(S, "color", Colors),
           description : FieldValues(S, "description", Descriptions),
           is_active : FieldValues(S, "is_active", BOOLEAN)]
          : S \in FieldSets({"name", "city_id", "color", "description", "is_active"},
                            {{"city_id", "is_active"}}) }

----------------------------------------------------------------------------
\* The store.

CityIdsOf(rows) == {r.id : r \in rows}

\* cities.name declared without unique=True
UniqueCityNameDropped(rows) == TRUE

\* the unique index of cities.name
UniqueCityName(rows) ==
  \A a \in rows : \A b \in rows : a.name = b.name => a.id = b.id

\* the store the service starts on: the two cities and the first zone that the
\* tests' setup_database inserts
InitCities ==
  { [id |-> 1, name |-> "Bogota", country |-> "Colombia", is_active |-> TRUE,
     created_at |-> 0, updated_at |-> 0],
    [id |-> 2, name |-> "Medellin", country |-> "Colombia", is_active |-> TRUE,
     created_at |-> 0, updated_at |-> 0] }

\* the initial zone, "#E74C3C"
InitZones ==
  { [id |-> 1, name |-> "Norte", city_id |-> 1,
     color |-> <<"#","E","7","4","C","3","C">>,
     description |-> Some("Zona norte"), is_active |-> TRUE,
     created_at |-> 0, updated_at |-> 0] }

\* the foreign key zones.city_id -> cities.id: PostgreSQL enforces it, SQLite
\* (foreign_keys pragma left off) does not
ForeignKeyOK(zrows, crows) ==
  engine = "postgresql" => \A z \in zrows : z.city_id \in CityIdsOf(crows)

\* the columns declared nullable=False that a PUT body can name
CityNotNull == {"name", "country", "is_active"}
ZoneNotNull == {"name", "city_id", "color", "is_active"}

\* a handler that also assigns updated_at itself, so that every PUT writes
NetChangesTouching(row, body, notnull) ==
  {"updated_at"} \cup
  {f \in body.set : IF f \in notnull THEN body[f] # Some(row[f])
                                       ELSE body[f] # row[f]}

\* the PUT handlers' loop of setattr over model_dump(exclude_unset=True): the
\* fields whose new value differs from the loaded one (the columns of the UPDATE)
NetChanges(row, body, notnull) ==
  {f \in body.set : IF f \in notnull THEN body[f] # Some(row[f])
                                       ELSE body[f] # row[f]}

\* the setattr loop passing over is_active
UpdatedKeepsIsActive(row, body, notnull, now) ==
  [f \in DOMAIN row |->
     IF f = "updated_at" THEN now
     ELSE IF f \in body.set \ {"is_active"}
       THEN (IF f \in notnull
               THEN (IF body[f] = None THEN row[f] ELSE body[f][1])
               ELSE body[f])
       ELSE row[f]]

\* created_at declared with onupdate=func.now() as well
UpdatedStampsCreated(row, body, notnull, now) ==
  [f \in DOMAIN row |->
     IF f \in {"updated_at", "created_at"} THEN now
     ELSE IF f \in body.set
       THEN (IF f \in notnull
               THEN (IF body[f] = None THEN row[f] ELSE body[f][1])
               ELSE body[f])
       ELSE row[f]]

\* the row the UPDATE writes; onupdate=func.now() stamps updated_at
Updated(row, body, notnull, now) ==
  [f \in DOMAIN row |->
     IF f = "updated_at" THEN now
     ELSE IF f \in body.set
       THEN (IF f \in notnull
               THEN (IF body[f] = None THEN row[f] ELSE body[f][1])
               ELSE body[f])
       ELSE row[f]]

\* a NULL bound for a nullable=False column
NotNullViolation(row, body, notnull) ==
  \E f \in NetChanges(row, body, notnull) : f \in notnull /\ body[f] = None

NoResp ==
  [op |-> "none", phase |-> "none", status |-> 0, exc |-> "none", id |-> 0,
   data |-> None, old |-> None, body |-> None]

\* the outcome of a step of a command handler
Response(op, phase, status, exc, id, data, old) ==
  [op |-> op, phase |-> phase, status |-> status, exc |-> exc, id |-> id,
   data |-> data, old |-> old, body |-> None]

\* the outcome of a query handler: its status and the body it returns
Reply(op, status, exc, id, data, body) ==
  [op |-> op, phase |-> "read", status |-> status, exc |-> exc, id |-> id,
   data |-> data, old |-> None, body |-> body]

\* a request that is added to the requests in flight
Request(op, data) == [op |-> op, data |-> data]

\* CityCreate(**body): the validated object and its model_dump()
CityCreate(body) ==
  [name |-> body.name,
   country |-> IF body.country = None THEN DefaultCountry ELSE body.country[1]]

\* create_city up to the pre-check: 400 when a city of that name exists
create_city_check(body) ==
  LET city_data == CityCreate(body)
      existing == {c \in cities : c.name = city_data.name}
  IN  /\ nreq < MaxRequests
      /\ nreq' = nreq + 1
      /\ IF existing # {}
           THEN /\ resp' = Response("create_city", "check", 400, "HTTPException",
                                    0, Some(city_data), None)
                /\ pending' = pending
           ELSE /\ pending' = pending (+) SetToBag({Request("create_city", city_data)})
                /\ resp' = Response("create_city", "check", 0, "none",
                                    0, Some(city_data), None)
      /\ UNCHANGED <<removed, engine, cities, zones, seq, clock>>

\* the sequence value a failed INSERT leaves behind: PostgreSQL's sequences
\* do not roll back, SQLite's rowid is taken from the rows
SeqAfterFailure(table) ==
  IF engine = "postgresql" THEN [seq EXCEPT ![table] = @ + 1] ELSE seq

\* create_city from db.add to the return: the INSERT and its commit
create_city_commit(r) ==
  LET new_city == [id |-> seq.cities, name |-> r.data.name,
                   country |-> r.data.country, is_active |-> TRUE,
                   created_at |-> clock, updated_at |-> clock]
  IN  /\ r.op = "create_city"
      /\ BagIn(r, pending)
      /\ pending' = pending (-) SetToBag({r})
      /\ IF UniqueCityName(cities \cup {new_city})
           THEN /\ cities' = cities \cup {new_city}
                /\ seq' = [seq EXCEPT !.cities = @ + 1]
                /\ clock' = clock + 1
                /\ resp' = Response("create_city", "commit", 201, "none",
                                    new_city.id, Some(r.data), None)
           ELSE /\ seq' = SeqAfterFailure("cities")
                /\ resp' = Response("create_city", "commit", 500, "IntegrityError",
                                    0, Some(r.data), None)
                /\ UNCHANGED <<cities, clock>>
      /\ UNCHANGED <<removed, engine, zones, nreq>>

\* update_city: the lookup, the setattr loop, the commit
update_city(city_id, body) ==
  LET found == {c \in cities : c.id = city_id}
      city == CHOOSE c \in found : TRUE
      new_city == Updated(city, body, CityNotNull, clock)
      rows == (cities \ {city}) \cup {new_city}
  IN  /\ nreq < MaxRequests
      /\ nreq' = nreq + 1
      /\ IF found = {}
           THEN /\ resp' = Response("update_city", "check", 404, "HTTPException",
                                    city_id, Some(body), None)
                /\ UNCHANGED <<cities, clock>>
           ELSE IF NetChanges(city, body, CityNotNull) = {}
           THEN /\ resp' = Response("update_city", "commit", 200, "none",
                                    city_id, Some(body), Some(city))
                /\ UNCHANGED <<cities, clock>>
           ELSE IF NotNullViolation(city, body, CityNotNull) \/ ~UniqueCityName(rows)
           THEN /\ resp' = Response("update_city", "commit", 500, "IntegrityError",
                                    city_id, Some(body), Some(city))
                /\ UNCHANGED <<cities, clock>>
           ELSE /\ cities' = rows
                /\ clock' = clock + 1
                /\ resp' = Response("update_city", "commit", 200, "none",
                                    city_id, Some(body), Some(city))
      /\ UNCHANGED <<removed, engine, zones, seq, pending>>

\* the request validation of POST /zones: Field(gt=0), Field(pattern=...) and
\* validate_color; a colour left out is not validated
ZoneCreateValid(body) ==
  /\ body.city_id > 0
  /\ body.color # None =>
       ColorPattern(body.color[1]) /\ validate_color_ok(body.color[1])

\* ZoneCreate(**body): the validated object and its model_dump()
ZoneCreate(body) ==
  [name |-> body.name, city_id |-> body.city_id,
   color |-> IF body.color = None THEN DefaultColor
                                  ELSE validate_color(body.color[1]),
   description |-> body.description]

\* the duplicate check placed before the city check
create_zone_status_dup_first(zone_data) ==
  IF \E z \in zones : z.name = zone_data.name /\ z.city_id = zone_data.city_id
    THEN 400
  ELSE IF zone_data.city_id \notin CityIdsOf(cities) THEN 404
  ELSE 0

\* the duplicate check filtering on the name alone
create_zone_status_name_only(zone_data) ==
  IF zone_data.city_id \notin CityIdsOf(cities) THEN 404
  ELSE IF \E z \in zones : z.name = zone_data.name
    THEN 400
  ELSE 0

\* the pre-checks of create_zone: the status they raise, 0 when they pass
create_zone_status(zone_data) ==
  IF zone_data.city_id \notin CityIdsOf(cities) THEN 404
  ELSE IF \E z \in zones : z.name = zone_data.name /\ z.city_id = zone_data.city_id
    THEN 400
  ELSE 0

\* a create_zone that adds and commits the row before it runs its checks
create_zone_check_insert_first(body) ==
  LET zone_data == ZoneCreate(body)
      st == create_zone_status(zone_data)
      new_zone == [id |-> seq.zones, name |-> zone_data.name,
                   city_id |-> zone_data.city_id, color |-> zone_data.color,
                   description |-> zone_data.description, is_active |-> TRUE,
                   created_at |-> clock, updated_at |-> clock]
  IN  /\ nreq < MaxRequests
      /\ nreq' = nreq + 1
      /\ IF ~ZoneCreateValid(body)
           THEN /\ resp' = Response("create_zone", "validate", 422, "ValidationError",
                                    0, Some(body), None)
                /\ UNCHANGED <<pending, zones, seq, clock>>
           ELSE IF st # 0
           THEN /\ resp' = Response("create_zone", "check", st, "HTTPException",
                                    0, Some(zone_data), None)
                /\ zones' = zones \cup {new_zone}
                /\ seq' = [seq EXCEPT !.zones = @ + 1]
                /\ clock' = clock + 1
                /\ pending' = pending
           ELSE /\ pending' = pending (+) SetToBag({Request("create_zone", zone_data)})
                /\ resp' = Response("create_zone", "check", 0, "none",
                                    0, Some(zone_data), None)
                /\ UNCHANGED <<zones, seq, clock>>
      /\ UNCHANGED <<removed, engine, cities>>

\* create_zone up to the pre-checks
create_zone_check(body) ==
  LET zone_data == ZoneCreate(body)
      st == create_zone_status(zone_data)
  IN  /\ nreq < MaxRequests
      /\ nreq' = nreq + 1
      /\ IF ~ZoneCreateValid(body)
           THEN /\ resp' = Response("create_zone", "validate", 422, "ValidationError",
                                    0, Some(body), None)
                /\ pending' = pending
           ELSE IF st # 0
           THEN /\ resp' = Response("create_zone", "check", st, "HTTPException",
                                    0, Some(zone_data), None)
                /\ pending' = pending
           ELSE /\ pending' = pending (+) SetToBag({Request("create_zone", zone_data)})
                /\ resp' = Response("create_zone", "check", 0, "none",
                                    0, Some(zone_data), None)
      /\ UNCHANGED <<removed, engine, cities, zones, seq, clock>>

\* create_zone from db.add to the return: the INSERT and its commit
create_zone_commit(r) ==
  LET new_zone == [id |-> seq.zones, name |-> r.data.name,
                   city_id |-> r.data.city_id, color |-> r.data.color,
                   description |-> r.data.description, is_active |-> TRUE,
                   created_at |-> clock, updated_at |-> clock]
  IN  /\ r.op = "create_zone"
      /\ BagIn(r, pending)
      /\ pending' = pending (-) SetToBag({r})
      /\ IF ForeignKeyOK(zones \cup {new_zone}, cities)
           THEN /\ zones' = zones \cup {new_zone}
                /\ seq' = [seq EXCEPT !.zones = @ + 1]
                /\ clock' = clock + 1
                /\ resp' = Response("create_zone", "commit", 201, "none",
                                    new_zone.id, Some(r.data), None)
           ELSE /\ seq' = SeqAfterFailure("zones")
                /\ resp' = Response("create_zone", "commit", 500, "IntegrityError",
                                    0, Some(r.data), None)
                /\ UNCHANGED <<zones, clock>>
      /\ UNCHANGED <<removed, engine, cities, nreq>>

\* the request validation of PUT /zones/{id}: Field(gt=0) and Field(pattern=...)
\* apply to the values that are not None
ZoneUpdateValid(body) ==
  /\ body.city_id # None => body.city_id[1] > 0
  /\ body.color # None => ColorPattern(body.color[1])

\* update_zone: the lookup, the setattr loop, the commit
update_zone(zone_id, body) ==
  LET found == {z \in zones : z.id = zone_id}
      zone == CHOOSE z \in found : TRUE
      new_zone == Updated(zone, body, ZoneNotNull, clock)
      rows == (zones \ {zone}) \cup {new_zone}
  IN  /\ nreq < MaxRequests
      /\ nreq' = nreq + 1
      /\ IF ~ZoneUpdateValid(body)
           THEN /\ resp' = Response("update_zone", "validate", 422, "ValidationError",
                                    zone_id, Some(body), None)
                /\ UNCHANGED <<zones, clock>>
           ELSE IF found = {}
           THEN /\ resp' = Response("update_zone", "check", 404, "HTTPException",
                                    zone_id, Some(body), None)
                /\ UNCHANGED <<zones, clock>>
           ELSE IF NetChanges(zone, body, ZoneNotNull) = {}
           THEN /\ resp' = Response("update_zone", "commit", 200, "none",
                                    zone_id, Some(body), Some(zone))
                /\ UNCHANGED <<zones, clock>>
           ELSE IF NotNullViolation(zone, body, ZoneNotNull) \/ ~ForeignKeyOK(rows, cities)
           THEN /\ resp' = Response("update_zone", "commit", 500, "IntegrityError",
                                    zone_id, Some(body), Some(zone))
                /\ UNCHANGED <<zones, clock>>
           ELSE /\ zones' = rows
                /\ clock' = clock + 1
                /\ resp' = Response("update_zone", "commit", 200, "none",
                                    zone_id, Some(body), Some(zone))
      /\ UNCHANGED <<removed, engine, cities, seq, pending>>

----------------------------------------------------------------------------
\* The query handlers.

\* CityResponse: the fields of the row that the schema declares
CityResponse(c) ==
  [id |-> c.id, name |-> c.name, country |-> c.country,
   is_active |-> c.is_active, created_at |-> c.created_at]

\* ZoneResponse: the fields of the row that the schema declares; the schema
\* inherits ZoneBase, so validate_color runs on the stored colour
ZoneResponse(z) ==
  [id |-> z.id, name |-> z.name, city_id |-> z.city_id,
   color |-> validate_color(z.color), description |-> z.description,
   is_active |-> z.is_active, created_at |-> z.created_at]

\* the zones query of get_city_with_zones without its is_active filter
zones_of_city_any(city_id) == {z \in zones : z.city_id = city_id}

\* the zones query of get_city_with_zones
zones_of_city(city_id) == {z \in zones : z.city_id = city_id /\ z.is_active = TRUE}

\* get_city_with_zones: 404 without the city, else the city with its zones
get_city_with_zones(city_id) ==
  LET found == {c \in cities : c.id = city_id}
      city == CHOOSE c \in found : TRUE
      zs == zones_of_city(city_id)
  IN  /\ nreq < MaxRequests
      /\ nreq' = nreq + 1
      /\ resp' = IF found = {}
                   THEN Reply("get_city_with_zones", 404, "HTTPException",
                              city_id, None, None)
                   ELSE Reply("get_city_with_zones", 200, "none", city_id, None,
                              Some([city |-> CityResponse(city),
                                    zones |-> {ZoneResponse(z) : z \in zs},
                                    total_zones |-> Cardinality(zs)]))
      /\ UNCHANGED <<removed, engine, cities, zones, seq, clock, pending>>

\* the join without its ON clause: every Zone row with every City row
zones_cross_cities == zones \X cities

\* the join of get_zones and get_zone: Zone rows paired with their City row
zones_join_cities == {zc \in zones \X cities : zc[1].city_id = zc[2].id}

\* ZoneWithCityResponse: a zone's fields with the joined city's name and country
ZoneWithCityResponse(z, c) ==
  [id |-> z.id, name |-> z.name, city_id |-> z.city_id,
   color |-> validate_color(z.color), description |-> z.description,
   is_active |-> z.is_active, created_at |-> z.created_at,
   city_name |-> c.name, city_country |-> c.country]

\* get_zone: the first row of the join filtered on the zone's id, 404 without one
get_zone(zone_id) ==
  LET result == {zc \in zones_join_cities : zc[1].id = zone_id}
      first == CHOOSE zc \in result : TRUE
  IN  /\ nreq < MaxRequests
      /\ nreq' = nreq + 1
      /\ resp' = IF result = {}
                   THEN Reply("get_zone", 404, "HTTPException", zone_id, None, None)
                   ELSE Reply("get_zone", 200, "none", zone_id, None,
                              Some(ZoneWithCityResponse(first[1], first[2])))
      /\ UNCHANGED <<removed, engine, cities, zones, seq, clock, pending>>

\* skip and limit of a list request: pages inside the limits of the Query
\* declarations, and one request beyond each limit
PageParams ==
  {[skip |-> sk, limit |-> li] : sk \in {0, 1}, li \in {1, 1000}}
  \cup {[skip |-> -1, limit |-> 1], [skip |-> 0, limit |-> 0], [skip |-> 0, limit |-> 1001]}

\* the request for a whole list
WholePage == [skip |-> 0, limit |-> 1000]

\* the is_active and city_id query parameters: left out, or given
ActiveFilters == {None, Some(TRUE), Some(FALSE)}
CityFilters == {None, Some(1), Some(9)}

\* Query(0, ge=0) and Query(100, ge=1, le=1000)
PaginationValid(skip, limit) == skip >= 0 /\ limit >= 1 /\ limit <= 1000

\* query.offset(skip).limit(limit): the number of rows of n that come back
page_size(n, skip, limit) ==
  LET rest == IF skip >= n THEN 0 ELSE n - skip
  IN  IF rest > limit THEN limit ELSE rest

\* .offset(skip).limit(limit).all() of a query without ORDER BY: the store
\* returns the rows in an order of its choosing, so any rows of that number
Pages(rows, skip, limit) ==
  {P \in SUBSET rows : Cardinality(P) = page_size(Cardinality(rows), skip, limit)}

\* get_cities: 422 from the Query limits, else a page of the filtered cities
get_cities(skip, limit, is_active) ==
  LET q == [skip |-> skip, limit |-> limit, is_active |-> is_active]
      query == {c \in cities : is_active # None => c.is_active = is_active[1]}
  IN  /\ nreq < MaxRequests
      /\ nreq' = nreq + 1
      /\ IF ~PaginationValid(skip, limit)
           THEN resp' = Reply("get_cities", 422, "ValidationError", 0, Some(q), None)
           ELSE \E page \in Pages(query, skip, limit) :
                  resp' = Reply("get_cities", 200, "none", 0, Some(q),
                                Some([rows |-> {CityResponse(c) : c \in page}]))
      /\ UNCHANGED <<removed, engine, cities, zones, seq, clock, pending>>

\* get_zones: 422 from the Query limits, else a page of the filtered join
get_zones(city_id, skip, limit, is_active) ==
  LET q == [city_id |-> city_id, skip |-> skip, limit |-> limit,
            is_active |-> is_active]
      query == {zc \in zones_join_cities :
                  /\ city_id # None => zc[1].city_id = city_id[1]
                  /\ is_active # None => zc[1].is_active = is_active[1]}
  IN  /\ nreq < MaxRequests
      /\ nreq' = nreq + 1
      /\ IF ~PaginationValid(skip, limit)
           THEN resp' = Reply("get_zones", 422, "ValidationError", 0, Some(q), None)
           ELSE \E page \in Pages(query, skip, limit) :
                  resp' = Reply("get_zones", 200, "none", 0, Some(q),
                                Some([rows |-> {ZoneWithCityResponse(zc[1], zc[2])
                                                 : zc \in page}]))
      /\ UNCHANGED <<removed, engine, cities, zones, seq, clock, pending>>

\* degrees a request may carry, as whole degrees: both sides of every limit
\* of CoordinateValidation, and the values of the tests (4, -74, 100, -200)
Latitudes == {-91, -90, -6, -5, 4, 13, 14, 90, 100}
Longitudes == {-200, -180, -81, -80, -74, -66, -65, 0, 180}

\* the pairs the service is sent next to its other requests: Bogota, and a
\* pair on the globe but out of the country
CoordinateSamples == {<<4, -74>>, <<40, -74>>}

\* settings.DEFAULT_COUNTRY
DEFAULT_COUNTRY == "Colombia"

\* Field(..., ge=lo, le=hi)
FieldRange(v, lo, hi) == lo <= v /\ v <= hi

\* validate_latitude_colombia with the limits themselves refused
validate_latitude_colombia_strict(v) == -5 < v /\ v < 13

\* validate_latitude_colombia: the condition under which it does not raise
validate_latitude_colombia(v) == -5 <= v /\ v <= 13

\* validate_longitude_colombia: the condition under which it does not raise
validate_longitude_colombia(v) == -80 <= v /\ v <= -66

\* CoordinateValidation: the field constraints, then the validators
CoordinateValidation(latitude, longitude) ==
  /\ FieldRange(latitude, -90, 90) /\ validate_latitude_colombia(latitude)
  /\ FieldRange(longitude, -180, 180) /\ validate_longitude_colombia(longitude)

\* validate_coordinates: 422 from the request schema, else the echo
validate_coordinates(latitude, longitude) ==
  LET coords == [latitude |-> latitude, longitude |-> longitude]
  IN  /\ nreq < MaxRequests
      /\ nreq' = nreq + 1
      /\ resp' = IF ~CoordinateValidation(latitude, longitude)
                   THEN Reply("validate_coordinates", 422, "ValidationError", 0,
                              Some(coords), None)
                   ELSE Reply("validate_coordinates", 200, "none", 0, Some(coords),
                              Some([latitude |-> coords.latitude,
                                    longitude |-> coords.longitude,
                                    is_valid |-> TRUE,
                                    country |-> DEFAULT_COUNTRY]))
      /\ UNCHANGED <<removed, engine, cities, zones, seq, clock, pending>>

----------------------------------------------------------------------------
\* Deletion of a city in the store.

\* zones.city_id declared without ondelete and City.zones without cascade
delete_no_cascade(zrows, city_id) == zrows

\* the zone rows that outlive the deletion of a city: ForeignKey(ondelete=
\* "CASCADE") and relationship(cascade="all, delete-orphan") remove its zones
delete_cascade(zrows, city_id) == {z \in zrows : z.city_id # city_id}

\* a City row is deleted, and the store applies the declared cascade in the
\* same transaction
delete_city(city_id) ==
  LET found == {c \in cities : c.id = city_id}
      city == CHOOSE c \in found : TRUE
      kept == delete_cascade(zones, city_id)
  IN  /\ nreq < MaxRequests
      /\ nreq' = nreq + 1
      /\ found # {}
      /\ cities' = cities \ {city}
      /\ zones' = kept
      /\ removed' = [cities |-> removed.cities \cup {city_id},
                     zones |-> removed.zones \cup {z.id : z \in zones \ kept}]
      /\ resp' = Response("delete_city", "commit", 0, "none", city_id, None, Some(city))
      /\ UNCHANGED <<engine, seq, clock, pending>>

----------------------------------------------------------------------------
Init ==
  /\ engine \in {"postgresql", "sqlite"}
  /\ cities = InitCities
  /\ zones = InitZones
  /\ seq = [cities |-> 3, zones |-> 2]
  /\ clock = 1
  /\ pending = EmptyBag
  /\ resp = NoResp
  /\ nreq = 0
  /\ removed = [cities |-> {}, zones |-> {}]

Next ==
  \/ \E body \in CityCreateBodies : create_city_check(body)
  \/ \E r \in BagToSet(pending) : create_city_commit(r)
  \/ \E city_id \in CityIds, body \in CityUpdateBodies : update_city(city_id, body)
  \/ \E body \in ZoneCreateBodies : create_zone_check(body)
  \/ \E r \in BagToSet(pending) : create_zone_commit(r)
  \/ \E zone_id \in ZoneIds, body \in ZoneUpdateBodies : update_zone(zone_id, body)

Spec == Init /\ [][Next]_vars

\* The commands with every query of the router; the lists are asked for
\* whole (skip 0, a limit no table reaches).
NextReads ==
  \/ Next
  \/ \E city_id \in CityIds : get_city_with_zones(city_id)
  \/ \E zone_id \in ZoneIds : get_zone(zone_id)
  \/ \E is_active \in {None, Some(TRUE)} :
       get_cities(WholePage.skip, WholePage.limit, is_active)
  \/ \E city_id \in {None, Some(1)} :
       get_zones(city_id, WholePage.skip, WholePage.limit, None)
  \/ \E c \in CoordinateSamples : validate_coordinates(c[1], c[2])

SpecReads == Init /\ [][NextReads]_vars

\* The commands with the paginated lists.  A list request beyond the Query
\* limits is sent without filters.
NextPages ==
  \/ Next
  \/ \E pg \in PageParams, is_active \in ActiveFilters :
       /\ PaginationValid(pg.skip, pg.limit) \/ is_active = None
       /\ get_cities(pg.skip, pg.limit, is_active)
  \/ \E pg \in PageParams, city_id \in CityFilters, is_active \in ActiveFilters :
       /\ PaginationValid(pg.skip, pg.limit) \/ (city_id = None /\ is_active = None)
       /\ get_zones(city_id, pg.skip, pg.limit, is_active)

SpecPages == Init /\ [][NextPages]_vars

\* The commands and queries on the deployed database (DATABASE_URL is a
\* PostgreSQL store), where cities are also deleted.
InitDelete == Init /\ engine = "postgresql"

NextDelete ==
  \/ NextReads
  \/ \E city_id \in CityIds : delete_city(city_id)

SpecDelete == InitDelete /\ [][NextDelete]_vars

\* POST /validate-coordinates alone, over the grid of degrees.
NextCoordinates ==
  \E latitude \in Latitudes, longitude \in Longitudes :
    validate_coordinates(latitude, longitude)

SpecCoordinates == Init /\ [][NextCoordinates]_vars

----------------------------------------------------------------------------
\* Properties.

CityRow(id) == CHOOSE c \in cities : c.id = id
ZoneRow(id) == CHOOSE z \in zones : z.id = id

\* the last step answered a PUT on a row that exists
UpdateAnswered == resp.op \in {"update_city", "update_zone"} /\ resp.old # None

\* the row the last PUT addressed, as it is now
UpdatedRow == IF resp.op = "update_city" THEN CityRow(resp.id) ELSE ZoneRow(resp.id)

\* the columns the last PUT could not leave NULL
UpdateNotNull == IF resp.op = "update_city" THEN CityNotNull ELSE ZoneNotNull

\* column f of row holds the value the body gives for f
HoldsPayload(row, body, f, notnull) ==
  IF f \in notnull THEN body[f] = Some(row[f]) ELSE body[f] = row[f]

\* C1: no two Zone rows, active or inactive, have the same (name, city_id).
C1_ZoneNameCityUnique ==
  \A a \in zones : \A b \in zones :
    a # b => ~(a.name = b.name /\ a.city_id = b.city_id)

\* C2: every Zone row's city_id is the id of a City row of the store.
C2_ZoneCityExists == \A z \in zones : z.city_id \in CityIdsOf(cities)

\* C3: every stored Zone's color matches ^#[0-9A-F]{6}$.
C3_ColorUpperHex ==
  \A z \in zones :
    /\ Len(z.color) = 7
    /\ z.color[1] = "#"
    /\ \A i \in 2..7 : z.color[i] \in HexUpper

\* C4: no two City rows have the same name, whatever the interleaving of
\* CreateCity and UpdateCity requests.
C4_CityNameUnique ==
  \A a \in cities : \A b \in cities : a # b => a.name # b.name

\* C4 witness: a CreateCity that passed its pre-check was refused by the unique
\* index, because a concurrent request had inserted the name first.
C4_RaceRefused ==
  /\ resp.op = "create_city" /\ resp.phase = "commit"
  /\ resp.exc = "IntegrityError"
  /\ Cardinality({c \in cities : c.name = resp.data[1].name}) = 1

\* C5: when two concurrent CreateCity requests with the same name both pass the
\* pre-check (the row of that name was inserted by the other request, after this
\* one's pre-check), the uniqueness violation raised on the second insert is
\* answered as Conflict (400), and one City of that name exists afterwards.
C5_ViolationAnsweredConflict ==
  (/\ resp.op = "create_city" /\ resp.exc = "IntegrityError"
   /\ \E c \in cities : /\ c.name = resp.data[1].name
                        /\ c.created_at > 0
                        /\ c.updated_at = c.created_at) =>
    /\ resp.status = 400
    /\ Cardinality({c \in cities : c.name = resp.data[1].name}) = 1

\* C6: every answered CreateCity either finds its name in the store, answers
\* Conflict (400) and inserts nothing, or does not find it, inserts exactly one
\* City of that name and answers 201.
C6_CreateCityConflictOrCreated ==
  [][ (resp'.op = "create_city" /\ resp'.status # 0) =>
        LET name == resp'.data[1].name
        IN  IF \E c \in cities : c.name = name
              THEN resp'.status = 400 /\ cities' = cities
              ELSE /\ resp'.status = 201
                   /\ \E row \in cities' \ cities :
                        /\ cities' = cities \cup {row}
                        /\ row.name = name
                        /\ row.id = resp'.id ]_vars

\* C7: a CreateZone (on a validated payload) whose city_id matches no City
\* answers NotFound (404) and inserts no Zone, also when a Zone of that name
\* and city_id exists.
C7_MissingCityNotFound ==
  [][ (/\ resp'.op = "create_zone" /\ resp'.phase = "check"
       /\ resp'.data[1].city_id \notin CityIdsOf(cities)) =>
        /\ resp'.status = 404
        /\ zones' = zones
        /\ pending' = pending ]_vars

\* C7 witness: NotFound answered to a request with both a missing city and a
\* name clash.
C7_MissingCityAndClash ==
  /\ resp.op = "create_zone" /\ resp.status = 404
  /\ \E z \in zones : /\ z.name = resp.data[1].name
                       /\ z.city_id = resp.data[1].city_id

\* C8: a CreateZone(n, c) for an existing city c answers Conflict exactly when
\* a Zone (n, c) exists, active or not; otherwise (also when n exists in
\* another city) it goes on to insert one new Zone row with a fresh id, 201.
C8_ConflictScopedToCity ==
  [][ /\ (/\ resp'.op = "create_zone" /\ resp'.phase = "check"
          /\ resp'.data[1].city_id \in CityIdsOf(cities)) =>
           LET d == resp'.data[1]
               clash == \E z \in zones : z.name = d.name /\ z.city_id = d.city_id
           IN  /\ clash <=> resp'.status = 400
               /\ ~clash => /\ resp'.status = 0
                            /\ BagIn(Request("create_zone", d), pending')
      /\ (resp'.op = "create_zone" /\ resp'.phase = "commit") =>
           /\ resp'.status = 201
           /\ \E row \in zones' \ zones :
                /\ zones' = zones \cup {row}
                /\ row.id \notin {z.id : z \in zones}
                /\ row.id = resp'.id
                /\ row.name = resp'.data[1].name
                /\ row.city_id = resp'.data[1].city_id ]_vars

\* C8 witness: Conflict answered because of a Zone that is inactive.
C8_ConflictWithInactive ==
  /\ resp.op = "create_zone" /\ resp.status = 400
  /\ \E z \in zones : /\ z.name = resp.data[1].name
                       /\ z.city_id = resp.data[1].city_id
                       /\ ~z.is_active

EmptyUpdateAnswered ==
  resp.op = "update_city" /\ resp.old # None /\ resp.data[1].set = {}

\* C10 as stated: an UpdateCity with an empty payload changes nothing but
\* updated_at, which it refreshes.
C10_EmptyUpdateRefreshes ==
  EmptyUpdateAnswered =>
    /\ \A f \in {"id", "name", "country", "is_active", "created_at"} :
         CityRow(resp.id)[f] = resp.old[1][f]
    /\ CityRow(resp.id).updated_at # resp.old[1].updated_at

\* C10 amended: an UpdateCity with an empty payload answers 200 and leaves id,
\* name, country, is_active, created_at and updated_at as they were, each
\* time it is applied.
C10_EmptyUpdateChangesNothing ==
  EmptyUpdateAnswered =>
    /\ resp.status = 200
    /\ CityRow(resp.id) = resp.old[1]

\* C10 witness: an empty payload applied to a city that an earlier update wrote.
C10_EmptyAfterWrite ==
  /\ EmptyUpdateAnswered
  /\ resp.old[1].updated_at > resp.old[1].created_at

\* the fields of a returned zone that are copied from its row
SameZone(zr, z) ==
  /\ zr.id = z.id /\ zr.name = z.name /\ zr.city_id = z.city_id
  /\ zr.description = z.description /\ zr.is_active = z.is_active
  /\ zr.created_at = z.created_at

C13_ColombiaBox ==
  resp.op = "validate_coordinates" =>
    LET lat == resp.data[1].latitude
        lon == resp.data[1].longitude
        inside == -5 <= lat /\ lat <= 13 /\ -80 <= lon /\ lon <= -66
    IN  IF inside
          THEN /\ resp.status = 200
               /\ resp.body = Some([latitude |-> lat, longitude |-> lon,
                                    is_valid |-> TRUE, country |-> "Colombia"])
          ELSE resp.status = 422 /\ resp.body = None

\* C13 witness: a corner of the box is accepted
C13_CornerAccepted ==
  /\ resp.op = "validate_coordinates" /\ resp.status = 200
  /\ resp.data[1].latitude = 13 /\ resp.data[1].longitude = -80

\* the rows of a table that satisfy the filters a list request supplies
MatchingRows(q) ==
  IF resp.op = "get_cities"
    THEN {c \in cities : q.is_active # None => c.is_active = q.is_active[1]}
    ELSE {z \in zones : /\ q.city_id # None => z.city_id = q.city_id[1]
                        /\ q.is_active # None => z.is_active = q.is_active[1]}

\* C14: ListCities and ListZones answer 422 for skip < 0 or limit outside
\* [1,1000]; otherwise every returned row satisfies every supplied filter and
\* the number of returned rows is min(limit, max(0, matching - skip)), where
\* matching is the number of rows that satisfy the filters.
C14_FilterThenPaginate ==
  resp.op \in {"get_cities", "get_zones"} =>
    LET q == resp.data[1]
        matching == Cardinality(MatchingRows(q))
        rest == IF matching - q.skip > 0 THEN matching - q.skip ELSE 0
    IN  IF q.skip < 0 \/ q.limit < 1 \/ q.limit > 1000
          THEN resp.status = 422
          ELSE /\ resp.status = 200
               /\ \A r \in resp.body[1].rows : \E m \in MatchingRows(q) : m.id = r.id
               /\ Cardinality(resp.body[1].rows) =
                    (IF q.limit < rest THEN q.limit ELSE rest)
               /\ Cardinality(resp.body[1].rows) <= q.limit

\* C14 on a store that enforces the foreign key of zones.city_id
C14_FilterThenPaginateEnforced == engine = "postgresql" => C14_FilterThenPaginate

ZoneIdsOf(rows) == {r.id : r \in rows}

\* a step that answers a create command with 201
Created(op) == resp'.op = op /\ resp'.status = 201

\* the id sets across a step: nothing leaves, and exactly one id enters the
\* table of a create command answered 201, none otherwise
IdsOnlyGrow ==
  /\ CityIdsOf(cities) \subseteq CityIdsOf(cities')
  /\ ZoneIdsOf(zones) \subseteq ZoneIdsOf(zones')
  /\ Cardinality(CityIdsOf(cities') \ CityIdsOf(cities)) =
       (IF Created("create_city") THEN 1 ELSE 0)
  /\ Cardinality(ZoneIdsOf(zones') \ ZoneIdsOf(zones)) =
       (IF Created("create_zone") THEN 1 ELSE 0)

\* an inactive row of the store, asked for by its point lookup, is returned
InactiveStillReturned ==
  /\ resp'.op = "get_city_with_zones" =>
       \A c \in cities : c.id = resp'.id /\ ~c.is_active =>
         resp'.status = 200 /\ resp'.body[1].city.id = c.id
  /\ resp'.op = "get_zone" =>
       \A z \in zones : z.id = resp'.id /\ ~z.is_active =>
         resp'.status = 200 /\ resp'.body[1].id = z.id

\* C15: across every request the sets of City ids and of Zone ids only grow,
\* by exactly one id per create command answered 201 and by none otherwise,
\* and a row whose is_active is false is still returned by GetCityWithZones
\* or GetZone.
C15_NoHardDelete == [][IdsOnlyGrow /\ InactiveStillReturned]_vars

\* C15 on a store that enforces the foreign key of zones.city_id
C15_NoHardDeleteEnforced ==
  [][engine = "postgresql" => IdsOnlyGrow /\ InactiveStillReturned]_vars

\* C15 without the lookup of zones
C15_IdsOnlyGrow == [][IdsOnlyGrow]_vars

\* a returned zone names the city its row references, as that city is now
CarriesCurrentCity(b) ==
  \E z \in zones : \E c \in cities :
    /\ z.id = b.id /\ b.city_id = z.city_id /\ c.id = z.city_id
    /\ b.city_name = c.name /\ b.city_country = c.country

\* C16: every zone returned by ListZones or GetZone carries the name and
\* the country that the City with the zone's city_id has in the store at the
\* time of the read, also after the city was renamed or the zone was moved.
C16_CurrentCityShown ==
  /\ resp.op = "get_zone" /\ resp.status = 200 => CarriesCurrentCity(resp.body[1])
  /\ resp.op = "get_zones" /\ resp.status = 200 =>
       \A b \in resp.body[1].rows : CarriesCurrentCity(b)

\* C16 witness: the list is read after an UpdateCity renamed the zone's city
C16_ReadAfterRename ==
  /\ resp.op = "get_zones" /\ resp.status = 200
  /\ \E b \in resp.body[1].rows : b.city_id = 1 /\ b.city_name = "Cali"
  /\ \E c \in cities : c.id = 1 /\ c.name = "Cali" /\ c.updated_at > c.created_at

\* every row of the table is in it after the step under the same id, once,
\* with the created_at it had
KeepsIdAndCreatedAt(rows, rowsAfter) ==
  \A r \in rows :
    /\ \E d \in rowsAfter : d.id = r.id
    /\ \A d \in rowsAfter : d.id = r.id => d.created_at = r.created_at

\* C17: no step changes the id or the created_at of a City or of a Zone: after
\* any UpdateCity or UpdateZone, whatever its payload, the row is in the
\* store under the id and with the created_at it was created with.
C17_IdAndCreatedAtFixed ==
  [][KeepsIdAndCreatedAt(cities, cities') /\ KeepsIdAndCreatedAt(zones, zones')]_vars

\* C17 witness: an UpdateZone has written the zone that a CreateZone of the
\* same run inserted
C17_CreatedThenUpdated ==
  /\ resp.op = "update_zone" /\ resp.status = 200 /\ resp.id = 2
  /\ \E z \in zones : z.id = 2 /\ z.created_at > 0 /\ z.updated_at > z.created_at

\* the answers that are domain errors: Conflict (400) and NotFound (404)
DomainError(r) ==
  \/ r.op = "create_city" /\ r.status = 400
  \/ r.op = "create_zone" /\ r.status \in {400, 404}
  \/ r.op \in {"update_city", "update_zone", "get_city_with_zones", "get_zone"}
       /\ r.status = 404

\* the steps of the query handlers
ReadAnswered(r) ==
  r.op \in {"get_cities", "get_zones", "get_city_with_zones", "get_zone",
            "validate_coordinates"}

\* C18: a request answered with a domain error (CreateCity Conflict,
\* CreateZone NotFound or Conflict, UpdateCity, UpdateZone, GetCityWithZones
\* or GetZone NotFound) leaves every City and Zone row as it was, and so does
\* every read operation whatever it answers.
C18_ErrorsAndReadsChangeNothing ==
  [][DomainError(resp') \/ ReadAnswered(resp') => cities' = cities /\ zones' = zones]_vars

\* C18 witness: CreateZone is answered Conflict on a store that an earlier
\* request of the run has written
C18_ConflictAfterWrite ==
  /\ resp.op = "create_zone" /\ resp.status = 400
  /\ clock > 1

====
